---- MODULE Spec2Model ----
(***************************************************************************)
(* Model of egui-snarl's node-graph container (src/src/lib.rs): the slab   *)
(* of node slots, the draw order and the wire set of `Snarl<T>`, with one  *)
(* action per public operation.                                            *)
(***************************************************************************)
EXTENDS Integers, Sequences, FiniteSets, Bags, TLC

(* ------------------------------ bounds --------------------------------- *)
\* Largest number of slab entries the model allocates (node ids 0..MaxNodes-1).
MaxNodes == 2
\* Largest pin index a caller passes (pin indices 0..MaxPin).
MaxPin == 1
\* Largest number of wires the model lets connect build up.
MaxWires == 2

\* The same three bounds of the runs that watch the order of three nodes:
\* node ids 0..OrderNodes-1, pin index 0..OrderPin, at most OrderWires wires.
OrderNodes == 3
OrderPin == 0
OrderWires == 2

\* The (payload, position) arguments the callers pass to add_node and
\* add_node_collapsed.
AddArgs == {[node |-> "A", pos |-> <<0, 0>>], [node |-> "B", pos |-> <<10, 10>>]}
\* Marker for "no payload" in the bookkeeping of returned values.
NoValue == "none"

NodeIds == 0 .. (MaxNodes - 1)
PinIdx == 0 .. MaxPin
OrderIds == 0 .. (OrderNodes - 1)

VARIABLES
    nodes,            \* Snarl::nodes, the Slab<Node<T>>: [entries, next]
    draw_order,       \* Snarl::draw_order, Vec<usize>
    wires,            \* Snarl::wires.wires, HashSet<Wire>, as a bag of wires
    debug_assertions, \* whether the build compiles debug_assert! in
    last,             \* the last call: operation, arguments, result
    prev,             \* nodes, draw_order, wires and given before the last call
    given,            \* per id, the payload passed to the add that last returned it
    misused,          \* whether some connect call named a node that was not live
    freed             \* the ids remove_node returned and no add has returned
                      \* since, the most recently removed first

vars == <<nodes, draw_order, wires, debug_assertions, last, prev, given, misused, freed>>

(* ------------------------------ pin ids -------------------------------- *)
OutPinId(node, output) == [node |-> node, output |-> output]
InPinId(node, input) == [node |-> node, input |-> input]
OutPins == {OutPinId(n, o) : n \in NodeIds, o \in PinIdx}
InPins == {InPinId(n, i) : n \in NodeIds, i \in PinIdx}
OrderOutPins == {OutPinId(n, o) : n \in OrderIds, o \in 0 .. OrderPin}
OrderInPins == {InPinId(n, i) : n \in OrderIds, i \in 0 .. OrderPin}

\* fn wire_pins / the struct literal Wire { out_pin, in_pin }
Wire(out_pin, in_pin) == [out_pin |-> out_pin, in_pin |-> in_pin]

\* struct Node<T> { value, pos, open }
Node(value, pos, open) == [value |-> value, pos |-> pos, open |-> open]

(* ------------------------------ slab::Slab ----------------------------- *)
\* Entry::Occupied(val) and Entry::Vacant(next); key k is entries[k + 1].
Occupied(val) == [occupied |-> TRUE, val |-> val]
Vacant(next) == [occupied |-> FALSE, next |-> next]

\* Slab::new()
SlabNew == [entries |-> <<>>, next |-> 0]

\* Slab::contains(key)
SlabContains(slab, key) ==
    /\ key < Len(slab.entries)
    /\ slab.entries[key + 1].occupied

\* The keys of the occupied entries.
SlabKeys(slab) == {k \in 0 .. (Len(slab.entries) - 1) : slab.entries[k + 1].occupied}

\* Slab::len()
SlabLen(slab) == Cardinality(SlabKeys(slab))

\* Slab::get(key), for a key the slab contains.
SlabGet(slab, key) == slab.entries[key + 1].val

\* Slab::insert(val): the key is `next`; a fresh key extends the entries, a
\* reused one pops the head of the vacant list.
SlabInsert(slab, val) ==
    LET key == slab.next IN
    [key |-> key,
     slab |-> IF key = Len(slab.entries)
              THEN [entries |-> Append(slab.entries, Occupied(val)),
                    next |-> key + 1]
              ELSE [entries |-> [slab.entries EXCEPT ![key + 1] = Occupied(val)],
                    next |-> slab.entries[key + 1].next]]

\* Variant of Slab::try_remove that frees the entry without making it the
\* head of the vacant list.
SlabTryRemove_NoFreeList(slab, key) ==
    IF SlabContains(slab, key)
    THEN [some |-> TRUE,
          val |-> slab.entries[key + 1].val,
          slab |-> [entries |-> [slab.entries EXCEPT ![key + 1] = Vacant(slab.next)],
                    next |-> slab.next]]
    ELSE [some |-> FALSE, val |-> NoValue, slab |-> slab]

\* Variant of Slab::try_remove that does not put back the entry it swapped
\* out when that entry was vacant.
SlabTryRemove_NoRestore(slab, key) ==
    IF SlabContains(slab, key)
    THEN [some |-> TRUE,
          val |-> slab.entries[key + 1].val,
          slab |-> [entries |-> [slab.entries EXCEPT ![key + 1] = Vacant(slab.next)],
                    next |-> key]]
    ELSE IF key < Len(slab.entries)
    THEN [some |-> FALSE, val |-> NoValue,
          slab |-> [slab EXCEPT !.entries[key + 1] = Vacant(slab.next)]]
    ELSE [some |-> FALSE, val |-> NoValue, slab |-> slab]

\* Slab::try_remove(key): an occupied entry becomes Vacant(next) and the head
\* of the vacant list; anything else leaves the slab as it was.
SlabTryRemove(slab, key) ==
    IF SlabContains(slab, key)
    THEN [some |-> TRUE,
          val |-> slab.entries[key + 1].val,
          slab |-> [entries |-> [slab.entries EXCEPT ![key + 1] = Vacant(slab.next)],
                    next |-> key]]
    ELSE [some |-> FALSE, val |-> NoValue, slab |-> slab]

(* ------------------------------ Wires ---------------------------------- *)
\* Wires::new()
WiresNew == EmptyBag

\* HashSet::retain(f): keeps the entries f accepts, here the set `kept`.
Retain(ws, kept) == [w \in kept |-> ws[w]]

\* Variant of Wires::insert that stores the wire without looking for an
\* equal one, as pushing onto a Vec would.
WiresInsert_AlwaysAdds(ws, wire) ==
    [ret |-> TRUE, wires |-> ws (+) SetToBag({wire})]

\* Wires::insert(wire): HashSet::insert adds the wire unless an equal one is
\* there, and says whether it added it.
WiresInsert(ws, wire) ==
    IF BagIn(wire, ws)
    THEN [ret |-> FALSE, wires |-> ws]
    ELSE [ret |-> TRUE, wires |-> ws (+) SetToBag({wire})]

\* Variant of Wires::remove that compares the out pin only.
WiresRemove_AnyInput(ws, wire) ==
    [ret |-> \E w \in BagToSet(ws) : w.out_pin = wire.out_pin,
     wires |-> Retain(ws, {w \in BagToSet(ws) : w.out_pin # wire.out_pin})]

\* Wires::remove(wire): HashSet::remove takes the wire out if it is there,
\* and says whether it was.
WiresRemove(ws, wire) ==
    [ret |-> BagIn(wire, ws),
     wires |-> Retain(ws, {w \in BagToSet(ws) : w # wire})]

\* Variant of Wires::drop_inputs that compares the node of the pin only.
WiresDropInputs_WholeNode(ws, pin) ==
    Retain(ws, {wire \in BagToSet(ws) : wire.in_pin.node # pin.node})

\* Wires::drop_inputs(pin)
WiresDropInputs(ws, pin) ==
    Retain(ws, {wire \in BagToSet(ws) : wire.in_pin # pin})

\* Variant of Wires::drop_outputs that compares the node of the pin only.
WiresDropOutputs_WholeNode(ws, pin) ==
    Retain(ws, {wire \in BagToSet(ws) : wire.out_pin.node # pin.node})

\* Wires::drop_outputs(pin)
WiresDropOutputs(ws, pin) ==
    Retain(ws, {wire \in BagToSet(ws) : wire.out_pin # pin})

\* Variant of Wires::drop_node that looks at the out pin only.
WiresDropNode_OutOnly(ws, node) ==
    Retain(ws, {wire \in BagToSet(ws) : wire.out_pin.node # node})

\* Variant of Wires::drop_node that looks at the in pin only.
WiresDropNode_InOnly(ws, node) ==
    Retain(ws, {wire \in BagToSet(ws) : wire.in_pin.node # node})

\* Wires::drop_node(node)
WiresDropNode(ws, node) ==
    Retain(ws, {wire \in BagToSet(ws) : wire.out_pin.node # node /\ wire.in_pin.node # node})

\* Variant of Wires::wired_inputs that compares the node of the out pin only.
WiredInputs_AnyOutput(ws, out_pin) ==
    LET hit == {wire \in BagToSet(ws) : wire.out_pin.node = out_pin.node} IN
    [pin \in {wire.in_pin : wire \in hit} |->
        BagCardinality(Retain(ws, {w \in BagToSet(ws) : w \in hit /\ w.in_pin = pin}))]

\* Wires::wired_inputs(out_pin): the in pins the iterator yields, as a bag
\* (the order of a hash set's iteration is unspecified).
WiredInputs(ws, out_pin) ==
    LET hit == {wire \in BagToSet(ws) : wire.out_pin = out_pin} IN
    [pin \in {wire.in_pin : wire \in hit} |-> ws[Wire(out_pin, pin)]]

\* Variant of Wires::wired_outputs that compares the node of the in pin only.
WiredOutputs_AnyInput(ws, in_pin) ==
    LET hit == {wire \in BagToSet(ws) : wire.in_pin.node = in_pin.node} IN
    [pin \in {wire.out_pin : wire \in hit} |->
        BagCardinality(Retain(ws, {w \in BagToSet(ws) : w \in hit /\ w.out_pin = pin}))]

\* Wires::wired_outputs(in_pin)
WiredOutputs(ws, in_pin) ==
    LET hit == {wire \in BagToSet(ws) : wire.in_pin = in_pin} IN
    [pin \in {wire.out_pin : wire \in hit} |-> ws[Wire(pin, in_pin)]]

(* ------------------------------ Snarl ---------------------------------- *)
\* A container value: the three fields of struct Snarl<T>.
Snarl(n, d, w) == [nodes |-> n, draw_order |-> d, wires |-> w]

\* Snarl::new()
SnarlNew == Snarl(SlabNew, <<>>, WiresNew)

\* The outcome of a call: the container afterwards, the value returned, and
\* whether the call panicked instead of returning.
Returned(s, ret) == [snarl |-> s, ret |-> ret, panicked |-> FALSE]
Panicked(s) == [snarl |-> s, ret |-> NoValue, panicked |-> TRUE]

\* Iterator::position(|&i| i == idx): the first index holding idx, 0 for None.
Position(order, idx) ==
    LET hits == {i \in 1 .. Len(order) : order[i] = idx} IN
    IF hits = {} THEN 0 ELSE CHOOSE i \in hits : \A j \in hits : i <= j

\* Variant of Vec::remove that fills the hole with the last element, as
\* Vec::swap_remove does.
VecRemove_Swap(order, i) ==
    IF i = Len(order) THEN SubSeq(order, 1, i - 1)
    ELSE SubSeq([order EXCEPT ![i] = order[Len(order)]], 1, Len(order) - 1)

\* Vec::remove(index), 1-based here.
VecRemove(order, i) == SubSeq(order, 1, i - 1) \o SubSeq(order, i + 1, Len(order))

\* Variant of add_node that does not push the id on draw_order.
add_node_NoPush(s, node, pos) ==
    LET ins == SlabInsert(s.nodes, Node(node, pos, TRUE)) IN
    Returned(Snarl(ins.slab, s.draw_order, s.wires), ins.key)

\* Snarl::add_node(node, pos)
add_node(s, node, pos) ==
    LET ins == SlabInsert(s.nodes, Node(node, pos, TRUE)) IN
    Returned(Snarl(ins.slab, Append(s.draw_order, ins.key), s.wires), ins.key)

\* Variant of add_node_collapsed that creates the node open.
add_node_collapsed_Open(s, node, pos) ==
    LET ins == SlabInsert(s.nodes, Node(node, pos, TRUE)) IN
    Returned(Snarl(ins.slab, Append(s.draw_order, ins.key), s.wires), ins.key)

\* Snarl::add_node_collapsed(node, pos)
add_node_collapsed(s, node, pos) ==
    LET ins == SlabInsert(s.nodes, Node(node, pos, FALSE)) IN
    Returned(Snarl(ins.slab, Append(s.draw_order, ins.key), s.wires), ins.key)

\* Variant of remove_node that frees the slot at the draw-order position
\* instead of the slot idx.
remove_node_ByOrder(s, idx) ==
    LET order == Position(s.draw_order, idx)
        rem == SlabTryRemove(s.nodes, order - 1)
        ws == WiresDropNode(s.wires, idx)
    IN  IF order = 0 THEN Panicked(s)
        ELSE IF ~rem.some THEN Panicked(s)
        ELSE Returned(Snarl(rem.slab, VecRemove(s.draw_order, order), ws), rem.val.value)

\* Variant of remove_node that leaves draw_order as it is.
remove_node_KeepsOrder(s, idx) ==
    LET rem == SlabTryRemove(s.nodes, idx)
        ws == WiresDropNode(s.wires, idx)
    IN  IF ~rem.some THEN Panicked(s)
        ELSE Returned(Snarl(rem.slab, s.draw_order, ws), rem.val.value)

\* Snarl::remove_node(idx): Slab::remove panics on a key that is not
\* occupied; position(..).unwrap() panics when idx is not in draw_order,
\* after the slot was freed and the wires dropped.
remove_node(s, idx) ==
    LET rem == SlabTryRemove(s.nodes, idx)
        ws == WiresDropNode(s.wires, idx)
        order == Position(s.draw_order, idx)
    IN  IF ~rem.some THEN Panicked(Snarl(rem.slab, s.draw_order, s.wires))
        ELSE IF order = 0 THEN Panicked(Snarl(rem.slab, s.draw_order, ws))
        ELSE Returned(Snarl(rem.slab, VecRemove(s.draw_order, order), ws), rem.val.value)

\* Snarl::connect(from, to); `debug` says whether the two debug_assert!
\* lines are compiled in.
connect(s, from, to, debug) ==
    IF debug /\ ~(SlabContains(s.nodes, from.node) /\ SlabContains(s.nodes, to.node))
    THEN Panicked(s)
    ELSE LET ins == WiresInsert(s.wires, Wire(from, to)) IN
         Returned(Snarl(s.nodes, s.draw_order, ins.wires), ins.ret)

(* ------------------------------ serde ---------------------------------- *)
\* The data formats a caller serializes through: "stream" writes a map's
\* entries as they come and reads them back in that order (JSON text);
\* "map" stores a map keyed by name, a later entry replacing an earlier one
\* with the same key (serde_json::Value).
Formats == {"stream", "map"}

Ok(v) == [ok |-> TRUE, val |-> v]
Err == [ok |-> FALSE, val |-> NoValue]

\* derive(Serialize) on OutPinId and InPinId: the struct's fields in order,
\* each as an entry <<name, value>>.
SerOutPinId(pin) == << <<"node", pin.node>>, <<"output", pin.output>> >>
SerInPinId(pin) == << <<"node", pin.node>>, <<"input", pin.input>> >>

\* derive(Serialize) on Wire with serde(flatten) on both fields: one map
\* that receives the entries of out_pin and then those of in_pin.
SerWire(wire) == SerOutPinId(wire.out_pin) \o SerInPinId(wire.in_pin)

\* What the format keeps of a map's entries.
FormatMap(format, entries) ==
    IF format = "stream" THEN entries
    ELSE LET keep == {i \in 1 .. Len(entries) :
                        \A j \in (i + 1) .. Len(entries) : entries[j][1] # entries[i][1]}
             F[i \in 0 .. Len(entries)] ==
                IF i = 0 THEN <<>>
                ELSE IF i \in keep THEN Append(F[i - 1], entries[i]) ELSE F[i - 1]
         IN  F[Len(entries)]

\* A flattened field read back from the collected entries: the struct's
\* visitor is handed, in order, every entry whose key is one of its fields
\* (those entries are taken out of the collection); it fails on a field it is
\* handed twice and on a field it is never handed.
DeFlatStruct(entries, fields) ==
    LET taken == {i \in 1 .. Len(entries) : entries[i][1] \in fields}
        dup == \E i, j \in taken : i # j /\ entries[i][1] = entries[j][1]
        missing == \E f \in fields : \A i \in taken : entries[i][1] # f
        R[i \in 0 .. Len(entries)] ==
            IF i = 0 THEN <<>>
            ELSE IF i \in taken THEN R[i - 1] ELSE Append(R[i - 1], entries[i])
    IN  IF dup \/ missing THEN [ok |-> FALSE, val |-> NoValue, rest |-> entries]
        ELSE [ok |-> TRUE,
              val |-> [f \in fields |-> entries[CHOOSE i \in taken : entries[i][1] = f][2]],
              rest |-> R[Len(entries)]]

\* derive(Deserialize) on Wire: out_pin is read from the collected entries,
\* then in_pin from those that are left.
DeWire(entries) ==
    LET o == DeFlatStruct(entries, {"node", "output"}) IN
    IF ~o.ok THEN Err
    ELSE LET i == DeFlatStruct(o.rest, {"node", "input"}) IN
         IF ~i.ok THEN Err
         ELSE Ok(Wire(OutPinId(o.val["node"], o.val["output"]),
                      InPinId(i.val["node"], i.val["input"])))

\* Wires is serde(transparent) over the HashSet: a sequence of wires, here
\* the bag of the serialized wires.
SerWires(format, ws) ==
    LET sers == {FormatMap(format, SerWire(w)) : w \in BagToSet(ws)} IN
    [x \in sers |-> BagCardinality(Retain(ws, {w \in BagToSet(ws) : FormatMap(format, SerWire(w)) = x}))]

\* Read back into a HashSet, which keeps one of each wire.
DeWires(ser) ==
    IF \E x \in BagToSet(ser) : ~DeWire(x).ok THEN Err
    ELSE Ok(SetToBag({DeWire(x).val : x \in BagToSet(ser)}))

\* Slab serializes as the map from each occupied key to its value.
SerSlab(slab) == [k \in SlabKeys(slab) |-> SlabGet(slab, k)]

\* Slab deserializes by placing each pair at its key and rebuilding the
\* vacant list so that lower keys come first.
DeSlab(pairs) ==
    LET keys == DOMAIN pairs
        len == IF keys = {} THEN 0 ELSE (CHOOSE k \in keys : \A j \in keys : j <= k) + 1
        vacant == (0 .. (len - 1)) \ keys
        NextVacant(k) ==
            LET later == {v \in vacant : v > k} IN
            IF later = {} THEN len ELSE CHOOSE v \in later : \A u \in later : v <= u
    IN  [entries |-> [i \in 1 .. len |->
                        IF (i - 1) \in keys THEN Occupied(pairs[i - 1])
                        ELSE Vacant(NextVacant(i - 1))],
         next |-> NextVacant(-1)]

\* derive(Serialize) on Snarl: its three fields.
SerSnarl(format, s) ==
    [nodes |-> SerSlab(s.nodes),
     draw_order |-> s.draw_order,
     wires |-> SerWires(format, s.wires)]

\* derive(Deserialize) on Snarl.
DeSnarl(ser) ==
    LET ws == DeWires(ser.wires) IN
    IF ~ws.ok THEN Err
    ELSE Ok(Snarl(DeSlab(ser.nodes), ser.draw_order, ws.val))

\* Serialize, then deserialize what was written.
serde_round_trip(format, s) == DeSnarl(SerSnarl(format, s))

\* The same container as far as a caller can observe: the live ids with
\* their payload, position and open flag, the draw order, the wire set.
SameContainer(a, b) ==
    /\ SlabKeys(a.nodes) = SlabKeys(b.nodes)
    /\ \A k \in SlabKeys(a.nodes) : SlabGet(a.nodes, k) = SlabGet(b.nodes, k)
    /\ a.draw_order = b.draw_order
    /\ a.wires = b.wires

(* ------------------------------ actions -------------------------------- *)
Current == Snarl(nodes, draw_order, wires)

InitWith(ids) ==
    /\ nodes = SnarlNew.nodes
    /\ draw_order = SnarlNew.draw_order
    /\ wires = SnarlNew.wires
    /\ debug_assertions \in BOOLEAN
    /\ last = [op |-> "new"]
    /\ given = [id \in ids |-> NoValue]
    /\ freed = <<>>
    /\ prev = SnarlNew @@ [given |-> given, freed |-> freed]
    /\ misused = FALSE

Init == InitWith(NodeIds)

\* The container becomes what the call left, and the call is recorded.
Step(out, call) ==
    /\ nodes' = out.snarl.nodes
    /\ draw_order' = out.snarl.draw_order
    /\ wires' = out.snarl.wires
    /\ last' = call @@ [ret |-> out.ret, panicked |-> out.panicked]
    /\ prev' = Current @@ [given |-> given, freed |-> freed]
    /\ UNCHANGED debug_assertions

AddNodeUpTo(cap) ==
    \E a \in AddArgs :
        LET out == add_node(Current, a.node, a.pos) IN
        /\ SlabLen(nodes) < cap
        /\ Step(out, [op |-> "add_node", node |-> a.node, pos |-> a.pos])
        /\ given' = [given EXCEPT ![out.ret] = a.node]
        /\ freed' = SelectSeq(freed, LAMBDA id : id # out.ret)
        /\ UNCHANGED misused

AddNode == AddNodeUpTo(MaxNodes)

AddNodeCollapsedUpTo(cap) ==
    \E a \in AddArgs :
        LET out == add_node_collapsed(Current, a.node, a.pos) IN
        /\ SlabLen(nodes) < cap
        /\ Step(out, [op |-> "add_node_collapsed", node |-> a.node, pos |-> a.pos])
        /\ given' = [given EXCEPT ![out.ret] = a.node]
        /\ freed' = SelectSeq(freed, LAMBDA id : id # out.ret)
        /\ UNCHANGED misused

AddNodeCollapsed == AddNodeCollapsedUpTo(MaxNodes)

RemoveNodeOf(ids) ==
    \E idx \in ids :
        LET out == remove_node(Current, idx) IN
        /\ Step(out, [op |-> "remove_node", idx |-> idx])
        /\ freed' = IF out.panicked THEN freed ELSE <<idx>> \o freed
        /\ UNCHANGED <<given, misused>>

RemoveNode == RemoveNodeOf(NodeIds)

ConnectOn(outs, ins, cap) ==
    \E from \in outs, to \in ins :
        LET out == connect(Current, from, to, debug_assertions) IN
        /\ BagCardinality(out.snarl.wires) <= cap
        /\ Step(out, [op |-> "connect", from |-> from, to |-> to])
        /\ misused' = (misused \/ ~SlabContains(nodes, from.node)
                               \/ ~SlabContains(nodes, to.node))
        /\ UNCHANGED <<given, freed>>

Connect == ConnectOn(OutPins, InPins, MaxWires)

\* The calls on the wire set that the container hands on: Wires::remove,
\* drop_inputs, drop_outputs, wired_inputs and wired_outputs. They touch
\* self.wires only.
OnWires(ws, ret) == Returned(Snarl(nodes, draw_order, ws), ret)

Disconnect ==
    \E from \in OutPins, to \in InPins :
        LET rem == WiresRemove(wires, Wire(from, to)) IN
        /\ Step(OnWires(rem.wires, rem.ret), [op |-> "remove", from |-> from, to |-> to])
        /\ UNCHANGED <<given, misused, freed>>

DropInputs ==
    \E pin \in InPins :
        /\ Step(OnWires(WiresDropInputs(wires, pin), NoValue), [op |-> "drop_inputs", pin |-> pin])
        /\ UNCHANGED <<given, misused, freed>>

DropOutputs ==
    \E pin \in OutPins :
        /\ Step(OnWires(WiresDropOutputs(wires, pin), NoValue), [op |-> "drop_outputs", pin |-> pin])
        /\ UNCHANGED <<given, misused, freed>>

QueryWiredInputs ==
    \E pin \in OutPins :
        /\ Step(OnWires(wires, WiredInputs(wires, pin)), [op |-> "wired_inputs", pin |-> pin])
        /\ UNCHANGED <<given, misused, freed>>

QueryWiredOutputs ==
    \E pin \in InPins :
        /\ Step(OnWires(wires, WiredOutputs(wires, pin)), [op |-> "wired_outputs", pin |-> pin])
        /\ UNCHANGED <<given, misused, freed>>

\* A caller serializes the container and reads it back; the container
\* itself is not touched.
SerdeRoundTrip ==
    \E format \in Formats :
        /\ Step(Returned(Current, serde_round_trip(format, Current)),
                [op |-> "serde_round_trip", format |-> format])
        /\ UNCHANGED <<given, misused, freed>>

Next ==
    \/ AddNode
    \/ AddNodeCollapsed
    \/ RemoveNode
    \/ Connect
    \/ SerdeRoundTrip

Spec == Init /\ [][Next]_vars

\* The wire set under every call that reaches it: nodes are added and
\* removed, pins are connected, and the calls on the wire set are made, in
\* any order.
NextWires ==
    \/ AddNode
    \/ RemoveNode
    \/ Connect
    \/ Disconnect
    \/ DropInputs
    \/ DropOutputs
    \/ QueryWiredInputs
    \/ QueryWiredOutputs

SpecWires == Init /\ [][NextWires]_vars

\* The node lifecycle over three node ids, with one pin index per node.
InitOrder == InitWith(OrderIds)

NextOrder ==
    \/ AddNodeUpTo(OrderNodes)
    \/ AddNodeCollapsedUpTo(OrderNodes)
    \/ RemoveNodeOf(OrderIds)
    \/ ConnectOn(OrderOutPins, OrderInPins, OrderWires)

SpecOrder == InitOrder /\ [][NextOrder]_vars

(* ------------------------------ properties ----------------------------- *)
Live(s, id) == SlabContains(s.nodes, id)
Range(seq) == {seq[i] : i \in 1 .. Len(seq)}
\* No wire is held more than once.
NoDuplicateWire(ws) == \A w \in BagToSet(ws) : ws[w] = 1
\* The wires of ws with an endpoint on node n, each counted once per copy.
Touching(ws, n) == Retain(ws, {w \in BagToSet(ws) : w.out_pin.node = n \/ w.in_pin.node = n})
LastWire == Wire(last.from, last.to)
\* The connect call just made was one the build lets through: with
\* debug_assertions both nodes were live.
ConnectAllowed == debug_assertions => (Live(prev, last.from.node) /\ Live(prev, last.to.node))

\* What C1 says of a connect call that has just been made on a wire that was
\* not there, and of the same call made once more.
ConnectTwice ==
    LET second == connect(Current, last.from, last.to, debug_assertions) IN
    /\ ~last.panicked
    /\ last.ret = TRUE
    /\ ~second.panicked
    /\ second.ret = FALSE
    /\ BagCardinality(second.snarl.wires) = BagCardinality(prev.wires) + 1
    /\ NoDuplicateWire(second.snarl.wires)

\* C1 as stated: for every pin pair whose wire is not yet present, connect
\* returns true, the same connect again returns false, and after both calls
\* there is exactly one wire more, no wire being held twice.
C1_Original ==
    (last.op = "connect" /\ ~BagIn(LastWire, prev.wires)) => ConnectTwice

\* C1, amended: for every pin pair whose wire is not yet present and whose
\* two nodes are live when the build checks debug assertions, connect
\* returns true, the same connect again returns false (also when it is
\* really called: a connect on a wire that is present returns false and
\* changes nothing), and after both calls there is exactly one wire more, no
\* wire being held twice.
C1_Uniqueness ==
    /\ (last.op = "connect" /\ ~BagIn(LastWire, prev.wires) /\ ConnectAllowed)
          => ConnectTwice
    /\ (last.op = "connect" /\ BagIn(LastWire, prev.wires) /\ ConnectAllowed)
          => (~last.panicked /\ last.ret = FALSE /\ wires = prev.wires)
    /\ NoDuplicateWire(wires)

\* The second of two equal connect calls has returned false, the first having
\* added the wire to one that was there.
C1_Witness ==
    /\ last.op = "connect"
    /\ ~last.panicked
    /\ last.ret = FALSE
    /\ BagIn(LastWire, wires)
    /\ BagCardinality(wires) = 2

\* C2: draw_order holds every live node id exactly once and no other id,
\* whatever adds, removes and connects came before, also after an id was
\* reused.
C2_DrawOrderPermutation ==
    /\ Range(draw_order) = SlabKeys(nodes)
    /\ Len(draw_order) = Cardinality(SlabKeys(nodes))

\* An add has just reused a freed id while another node and a wire exist.
C2_Witness ==
    /\ last.op \in {"add_node", "add_node_collapsed"}
    /\ last.ret < Len(prev.nodes.entries)
    /\ Len(draw_order) = 2
    /\ draw_order[2] = 0
    /\ wires # EmptyBag

\* C3: remove_node(n) on a live n that has k wires (a wire with both ends on
\* n counted once) returns, takes exactly k wires away, takes n out of
\* draw_order, and leaves no wire that mentions n: wired_inputs and
\* wired_outputs are empty for every pin of n.
C3_CascadeDeletion ==
    (last.op = "remove_node" /\ Live(prev, last.idx)) =>
        LET n == last.idx
            k == BagCardinality(Touching(prev.wires, n))
        IN  /\ ~last.panicked
            /\ BagCardinality(wires) = BagCardinality(prev.wires) - k
            /\ n \notin Range(draw_order)
            /\ \A p \in PinIdx :
                  /\ WiredInputs(wires, OutPinId(n, p)) = EmptyBag
                  /\ WiredOutputs(wires, InPinId(n, p)) = EmptyBag
            /\ \A w \in BagToSet(wires) : w.out_pin.node # n /\ w.in_pin.node # n

\* A node with two wires, one of them from itself to itself, has just been
\* removed.
C3_Witness ==
    /\ last.op = "remove_node"
    /\ ~last.panicked
    /\ BagCardinality(Touching(prev.wires, last.idx)) = 2
    /\ \E w \in BagToSet(prev.wires) :
          w.out_pin.node = last.idx /\ w.in_pin.node = last.idx
    /\ \E w \in BagToSet(prev.wires) : w.out_pin.node # w.in_pin.node

\* C4: as long as every connect call so far named two live nodes, every wire
\* has both its ends on live nodes and every id in draw_order is live.
C4_NoDanglingId ==
    ~misused =>
        /\ \A w \in BagToSet(wires) : Live(Current, w.out_pin.node) /\ Live(Current, w.in_pin.node)
        /\ \A id \in Range(draw_order) : Live(Current, id)

\* With no misuse so far, a node was removed, one of two wires went with it
\* and the other stayed.
C4_Witness ==
    /\ ~misused
    /\ last.op = "remove_node"
    /\ ~last.panicked
    /\ BagCardinality(prev.wires) = 2
    /\ BagCardinality(wires) = 1

\* C5 as stated: a wire enters the wire set only through a connect call
\* whose two nodes are live at the time: a connect naming a node that is not
\* live adds no wire, and no other operation adds one.
C5_WiresOnlyBetweenLiveNodes ==
    /\ (last.op = "connect" /\ ~(Live(prev, last.from.node) /\ Live(prev, last.to.node)))
          => wires = prev.wires
    /\ last.op # "connect"
          => \A w \in BagToSet(wires) : BagIn(w, prev.wires) /\ wires[w] <= prev.wires[w]

\* C6: remove_node on an id that is not live panics and returns no payload,
\* and nodes, draw_order and wires are as they were before the call.
C6_RemoveDeadNodeFails ==
    (last.op = "remove_node" /\ ~Live(prev, last.idx)) =>
        /\ last.panicked
        /\ last.ret = NoValue
        /\ nodes = prev.nodes
        /\ draw_order = prev.draw_order
        /\ wires = prev.wires

\* remove_node has just been called on an id that was removed and not yet
\* reused, while a node is live and a wire still names the removed id.
C6_Witness ==
    /\ last.op = "remove_node"
    /\ last.panicked
    /\ last.idx < Len(nodes.entries)
    /\ ~Live(Current, last.idx)
    /\ draw_order # <<>>
    /\ Touching(wires, last.idx) # EmptyBag

\* C7: add_node returns an id that was not live; afterwards the id is live
\* with the payload and position passed and open = true, it is the last of
\* draw_order behind the previous draw_order, and the wires and the other
\* nodes are as before. add_node_collapsed gives the state and the id that
\* add_node would have given, except that open = false.
C7_AddNode ==
    (last.op \in {"add_node", "add_node_collapsed"}) =>
        LET id == last.ret
            a == add_node(prev, last.node, last.pos)
        IN  /\ ~last.panicked
            /\ ~Live(prev, id)
            /\ Live(Current, id)
            /\ SlabGet(nodes, id) = Node(last.node, last.pos, last.op = "add_node")
            /\ draw_order = Append(prev.draw_order, id)
            /\ wires = prev.wires
            /\ SlabKeys(nodes) = SlabKeys(prev.nodes) \cup {id}
            /\ \A k \in SlabKeys(prev.nodes) : SlabGet(nodes, k) = SlabGet(prev.nodes, k)
            /\ last.op = "add_node_collapsed" =>
                  /\ id = a.ret
                  /\ draw_order = a.snarl.draw_order
                  /\ wires = a.snarl.wires
                  /\ nodes = [a.snarl.nodes EXCEPT !.entries[id + 1].val.open = FALSE]

\* add_node_collapsed has just reused a freed id beside a live node and a wire.
C7_Witness ==
    /\ last.op = "add_node_collapsed"
    /\ last.ret < Len(prev.nodes.entries)
    /\ Len(draw_order) = 2
    /\ wires # EmptyBag

\* The in pins wired to out pin o, each once, read off the wire set itself.
InputsOf(ws, o) == SetToBag({pin \in InPins : BagIn(Wire(o, pin), ws)})
OutputsOf(ws, i) == SetToBag({pin \in OutPins : BagIn(Wire(pin, i), ws)})

\* What C8 says of one of its N connect calls, just made: it returned true,
\* and wired_inputs of the out pin yields what it yielded before and the new
\* in pin, each once and nothing else; the same for wired_outputs of the in
\* pin. From a pin with no wires, N such calls leave exactly the N pins.
FanOutStep ==
    /\ ~last.panicked
    /\ last.ret = TRUE
    /\ WiredInputs(wires, last.from) = WiredInputs(prev.wires, last.from) (+) SetToBag({last.to})
    /\ WiredInputs(wires, last.from) = InputsOf(wires, last.from)
FanInStep ==
    /\ ~last.panicked
    /\ last.ret = TRUE
    /\ WiredOutputs(wires, last.to) = WiredOutputs(prev.wires, last.to) (+) SetToBag({last.from})
    /\ WiredOutputs(wires, last.to) = OutputsOf(wires, last.to)

\* C8 as stated: for any out pin o, connecting it to in pins on live nodes
\* that it is not yet wired to returns true each time and wired_inputs(o)
\* yields exactly those pins; symmetrically for out pins on live nodes
\* connected to any one in pin and wired_outputs.
C8_Original ==
    /\ (last.op = "connect" /\ Live(prev, last.to.node)
            /\ ~BagIn(last.to, WiredInputs(prev.wires, last.from))) => FanOutStep
    /\ (last.op = "connect" /\ Live(prev, last.from.node)
            /\ ~BagIn(last.from, WiredOutputs(prev.wires, last.to))) => FanInStep

\* C8, amended: the same, for a pin o (an in pin i) whose own node is live
\* too when the build checks debug assertions.
C8_FanOutFanIn ==
    /\ (last.op = "connect" /\ ConnectAllowed
            /\ ~BagIn(last.to, WiredInputs(prev.wires, last.from))) => FanOutStep
    /\ (last.op = "connect" /\ ConnectAllowed
            /\ ~BagIn(last.from, WiredOutputs(prev.wires, last.to))) => FanInStep

\* The connect just made was the MaxWires-th from one out pin that had no
\* wire, to distinct in pins on live nodes, the out pin having another output
\* index beside it on a live node.
C8_Witness ==
    /\ last.op = "connect"
    /\ ~last.panicked
    /\ last.ret = TRUE
    /\ Live(Current, last.from.node)
    /\ BagCardinality(WiredInputs(wires, last.from)) = MaxWires
    /\ \A pin \in BagToSet(WiredInputs(wires, last.from)) : Live(Current, pin.node)

\* C9: remove_node on a live id returns the payload passed to the add that
\* most recently returned the id; the slot is then free and holds no
\* payload; every live slot holds the payload of the add that most recently
\* returned its id (a reused slot only the new one); a remove_node that finds
\* no live node returns no payload; and a container read back from its
\* serialized form holds those payloads too.
C9_PayloadReturnedOnce ==
    /\ (last.op = "remove_node" /\ Live(prev, last.idx)) =>
          /\ ~last.panicked
          /\ last.ret = prev.given[last.idx]
          /\ ~Live(Current, last.idx)
    /\ (last.op = "remove_node" /\ ~Live(prev, last.idx)) => last.ret = NoValue
    /\ \A id \in SlabKeys(nodes) : SlabGet(nodes, id).value = given[id]
    /\ \A i \in 1 .. Len(nodes.entries) :
          ~nodes.entries[i].occupied => DOMAIN nodes.entries[i] = {"occupied", "next"}
    /\ (last.op = "serde_round_trip" /\ last.ret.ok) =>
          \A id \in SlabKeys(last.ret.val.nodes) :
              id \in SlabKeys(nodes) /\ SlabGet(last.ret.val.nodes, id).value = given[id]

\* An add has just reused an id whose previous payload, another one, was
\* returned by remove_node before.
C9_Witness ==
    /\ last.op \in {"add_node", "add_node_collapsed"}
    /\ last.ret < Len(prev.nodes.entries)
    /\ prev.given[last.ret] \notin {NoValue, last.node}
    /\ given[last.ret] = last.node

\* C10 as stated: a container with at least 2 nodes and at least 2 wires,
\* serialized and read back, comes back, with the same live ids, payloads,
\* positions and open flags, the same draw_order and the same wires.
C10_RoundTrip ==
    (last.op = "serde_round_trip" /\ SlabLen(nodes) >= 2 /\ BagCardinality(wires) >= 2) =>
        /\ last.ret.ok
        /\ SameContainer(last.ret.val, Current)

\* The last call left nodes, draw_order and wires as they were.
Untouched ==
    /\ nodes = prev.nodes
    /\ draw_order = prev.draw_order
    /\ wires = prev.wires

\* C11: connect on a pair that is connected returns false, Wires::remove of
\* an absent wire returns false, drop_inputs and drop_outputs on a pin with
\* no wires return, wired_inputs and wired_outputs on a pin with no wires
\* yield nothing; none of them panics and each leaves nodes, draw_order and
\* wires as they were.
C11_ExpectedNonErrors ==
    /\ (last.op = "connect" /\ BagIn(LastWire, prev.wires))
          => (~last.panicked /\ last.ret = FALSE /\ Untouched)
    /\ (last.op = "remove" /\ ~BagIn(LastWire, prev.wires))
          => (~last.panicked /\ last.ret = FALSE /\ Untouched)
    /\ (last.op = "drop_inputs" /\ OutputsOf(prev.wires, last.pin) = EmptyBag)
          => (~last.panicked /\ Untouched)
    /\ (last.op = "drop_outputs" /\ InputsOf(prev.wires, last.pin) = EmptyBag)
          => (~last.panicked /\ Untouched)
    /\ (last.op = "wired_inputs" /\ InputsOf(prev.wires, last.pin) = EmptyBag)
          => (~last.panicked /\ last.ret = EmptyBag /\ Untouched)
    /\ (last.op = "wired_outputs" /\ OutputsOf(prev.wires, last.pin) = EmptyBag)
          => (~last.panicked /\ last.ret = EmptyBag /\ Untouched)

\* wired_outputs has just been asked for an in pin with no wires whose node
\* has a wire into its other input index.
C11_Witness ==
    /\ last.op = "wired_outputs"
    /\ OutputsOf(wires, last.pin) = EmptyBag
    /\ \E w \in BagToSet(wires) : w.in_pin.node = last.pin.node
    /\ BagCardinality(wires) = 2

\* C13: Wires::remove(w) returns true exactly when w was in the set;
\* afterwards the set is the old one without w, every other wire still
\* there once; removing w again returns false.
C13_RemoveExactWire ==
    last.op = "remove" =>
        /\ ~last.panicked
        /\ last.ret = BagIn(LastWire, prev.wires)
        /\ BagToSet(wires) = BagToSet(prev.wires) \ {LastWire}
        /\ \A w \in BagToSet(wires) : wires[w] = prev.wires[w]
        /\ WiresRemove(wires, LastWire).ret = FALSE
        /\ WiresRemove(wires, LastWire).wires = wires

\* The only way two wires differ in exactly one of their four fields.
OneFieldApart(a, b) ==
    Cardinality({f \in {"on", "oo", "in", "ii"} :
        CASE f = "on" -> a.out_pin.node # b.out_pin.node
          [] f = "oo" -> a.out_pin.output # b.out_pin.output
          [] f = "in" -> a.in_pin.node # b.in_pin.node
          [] f = "ii" -> a.in_pin.input # b.in_pin.input}) = 1

\* A wire has just been removed, and a wire one field apart from it stays.
C13_Witness ==
    /\ last.op = "remove"
    /\ last.ret = TRUE
    /\ \E w \in BagToSet(wires) : OneFieldApart(w, LastWire)

\* C14: drop_inputs(p) leaves exactly the wires whose in pin is not p (node
\* and input index both compared), each as it was, and a second
\* drop_inputs(p) changes nothing.
C14_DropInputs ==
    last.op = "drop_inputs" =>
        /\ ~last.panicked
        /\ BagToSet(wires) = {w \in BagToSet(prev.wires) :
                                ~(w.in_pin.node = last.pin.node /\ w.in_pin.input = last.pin.input)}
        /\ \A w \in BagToSet(wires) : wires[w] = prev.wires[w]
        /\ WiresDropInputs(wires, last.pin) = wires
        /\ nodes = prev.nodes
        /\ draw_order = prev.draw_order

\* drop_inputs(p) has just removed a wire into p and kept a wire into the
\* other input index of the same node.
C14_Witness ==
    /\ last.op = "drop_inputs"
    /\ BagCardinality(prev.wires) = 2
    /\ BagCardinality(wires) = 1
    /\ \E w \in BagToSet(wires) :
          w.in_pin.node = last.pin.node /\ w.in_pin.input # last.pin.input

\* C15: drop_outputs(q) leaves exactly the wires whose out pin is not q (node
\* and output index both compared), each as it was, and wired_inputs(q) is
\* empty afterwards.
C15_DropOutputs ==
    last.op = "drop_outputs" =>
        /\ ~last.panicked
        /\ BagToSet(wires) = {w \in BagToSet(prev.wires) :
                                ~(w.out_pin.node = last.pin.node /\ w.out_pin.output = last.pin.output)}
        /\ \A w \in BagToSet(wires) : wires[w] = prev.wires[w]
        /\ WiredInputs(wires, last.pin) = EmptyBag
        /\ nodes = prev.nodes
        /\ draw_order = prev.draw_order

\* drop_outputs(q) has just removed a wire leaving q and kept a wire that
\* enters an input of q's node from the other output index of that node.
C15_Witness ==
    /\ last.op = "drop_outputs"
    /\ BagCardinality(prev.wires) = 2
    /\ BagCardinality(wires) = 1
    /\ \E w \in BagToSet(wires) :
          /\ w.out_pin.node = last.pin.node
          /\ w.out_pin.output # last.pin.output
          /\ w.in_pin.node = last.pin.node

\* C12 as stated: with debug assertions compiled out, whatever connect calls
\* came before, a node that add_node or add_node_collapsed has just returned
\* has no wire on it, also when its id is a reused one.
C12_NewNodeHasNoWire ==
    (~debug_assertions /\ last.op \in {"add_node", "add_node_collapsed"}) =>
        \A w \in BagToSet(wires) : w.out_pin.node # last.ret /\ w.in_pin.node # last.ret

\* C16: remove_node on a live idx finds idx in draw_order and returns; the
\* slot is then free, idx is out of draw_order and no wire names it; and a
\* remove_node that panics has changed nothing (it never fails after the
\* slot was freed and the wires dropped).
C16_RemoveCompletes ==
    /\ (last.op = "remove_node" /\ Live(prev, last.idx)) =>
          /\ Position(prev.draw_order, last.idx) # 0
          /\ ~last.panicked
          /\ ~Live(Current, last.idx)
          /\ last.idx \notin Range(draw_order)
          /\ Touching(wires, last.idx) = EmptyBag
    /\ (last.op = "remove_node" /\ last.panicked) => Untouched

\* remove_node has just returned for a node that had a wire and whose place
\* in draw_order was not the one its id would suggest.
C16_Witness ==
    /\ last.op = "remove_node"
    /\ ~last.panicked
    /\ Position(prev.draw_order, last.idx) # last.idx + 1
    /\ Touching(prev.wires, last.idx) # EmptyBag

\* The number of ids add had handed out before the last call.
HandedOut == Cardinality({id \in DOMAIN prev.given : prev.given[id] # NoValue})

\* C18: the id an add returns is fixed by the adds and removes before it: the
\* most recently removed id that no add has returned since, and with no such
\* id the next of 0, 1, 2, ...; the payload, the position and the kind of add
\* make no difference.
C18_DeterministicIds ==
    (last.op \in {"add_node", "add_node_collapsed"}) =>
        /\ last.ret = IF prev.freed = <<>> THEN HandedOut ELSE Head(prev.freed)
        /\ \A a \in AddArgs :
              /\ add_node(prev, a.node, a.pos).ret = last.ret
              /\ add_node_collapsed(prev, a.node, a.pos).ret = last.ret

\* Two ids were waiting, the higher one removed last, and an add has just
\* returned it.
C18_Witness ==
    /\ last.op \in {"add_node", "add_node_collapsed"}
    /\ Len(prev.freed) = 2
    /\ prev.freed[1] > prev.freed[2]
    /\ last.ret = prev.freed[1]

\* C17: remove_node(n) on a live n leaves every wire with neither end on n
\* in the wire set, every other live node with its id, payload, position and
\* open flag, and draw_order as the old one with the single entry n deleted,
\* the others in their order.
C17_RemoveFrame ==
    (last.op = "remove_node" /\ Live(prev, last.idx)) =>
        LET n == last.idx IN
        /\ ~last.panicked
        /\ BagToSet(wires) = {w \in BagToSet(prev.wires) :
                                w.out_pin.node # n /\ w.in_pin.node # n}
        /\ \A w \in BagToSet(wires) : wires[w] = prev.wires[w]
        /\ SlabKeys(nodes) = SlabKeys(prev.nodes) \ {n}
        /\ \A k \in SlabKeys(nodes) : SlabGet(nodes, k) = SlabGet(prev.nodes, k)
        /\ draw_order = SelectSeq(prev.draw_order, LAMBDA id : id # n)
        /\ Len(draw_order) = Len(prev.draw_order) - 1

\* The first of three nodes in draw_order has just been removed, the two
\* that stay are not in the order of their ids, a wire between them stayed
\* and a wire on the removed node went.
C17_Witness ==
    /\ last.op = "remove_node"
    /\ ~last.panicked
    /\ Len(prev.draw_order) = 3
    /\ prev.draw_order[1] = last.idx
    /\ draw_order[1] > draw_order[2]
    /\ BagCardinality(prev.wires) = 2
    /\ BagCardinality(wires) = 1

====
